---- MODULE Spec2Model ----
(***************************************************************************)
(* A model of the market-research agent service.                           *)
(*                                                                         *)
(*   - web.py: stream_research / event_stream (the streaming session       *)
(*     manager), cancel_research (the cancel endpoint) and the process-    *)
(*     wide registry _active_sessions.  The agent run is an asyncio task   *)
(*     on the same event loop: code between two suspension points (await / *)
(*     yield) is one atomic step.                                          *)
(*   - agent.py: _is_report_text, _extract_report (the report extractor),  *)
(*     as operators over texts.                                            *)
(***************************************************************************)
EXTENDS Integers, Sequences, FiniteSets, TLC

\* ------------------------------------------------------------------------
\* Bounds of the model
\* ------------------------------------------------------------------------

\* tool invocations (WebSearch / WebFetch) one agent run may make
MaxToolCalls == 1

\* last value of the event-loop clock
MaxTime == 11

\* last value of the clock where the polling loop is followed for longer
MaxBeatTime == 21

\* ------------------------------------------------------------------------
\* Program constants
\* ------------------------------------------------------------------------

\* web.py:35  max(10, min(100, max_turns))
MinTurns == 10
MaxTurns == 100

\* web.py:68  heartbeat_interval = 10
heartbeat_interval == 10

\* web.py:72  wait_for(queue.get(), timeout=1.0); the clock advances in
\* steps of this timeout
QueueTimeout == 1

\* ------------------------------------------------------------------------
\* Sessions, requests
\* ------------------------------------------------------------------------

\* session ids (uuid4 prefixes: distinct per stream)
Sessions == {"s1"}

\* ids a cancel request may carry: the sessions' ids and an id no stream has
CancelIds == Sessions \cup {"zz"}

\* turn counts a client may request (web.py:32 max_turns: int)
TurnRequests == {-7, 0, 5, 9, 10, 11, 42, 99, 100, 101, 500}

\* the turn counts requested where the session's later life is explored
SessionTurns == {5}

Min(a, b) == IF a < b THEN a ELSE b
Max(a, b) == IF a > b THEN a ELSE b

ClampSwapped(n) == Min(MinTurns, Max(MaxTurns, n))

\* web.py:35
Clamp(n) == Max(MinTurns, Min(MaxTurns, n))

\* web.py:195 _sse(event, data): the event name with its payload
Ev(e, k, n) == [ev |-> e, kind |-> k, n |-> n]

Terminal == {"complete", "cancelled", "error_event"}

VARIABLES
    now,             \* asyncio.get_event_loop().time()
    registry,        \* _active_sessions: the ids it holds (id s -> task of s)
    pc,              \* where each event_stream generator is suspended
    requested,       \* the max_turns query parameter of the request
    max_turns,       \* max_turns after line 35
    prompt,          \* whether the prompt parameter is non-empty
    queue,           \* the session's asyncio.Queue
    started_at,
    last_heartbeat,
    wait_expired,    \* the timeout of the pending wait_for(queue.get()) has passed
    hb_now,          \* `now` of line 77, while the heartbeat of line 81 is out
    cur,             \* message of line 72, between its log and status yields
    sent,            \* the events yielded to the client so far
    signal_at,       \* history, kept where the specification starts it: the
                     \* clock at the latest of the session's start, its last
                     \* forwarded progress event and its last heartbeat
    rendered,        \* "no" | "ok" | "failed": the call of render_pdf
    ended,           \* "no" | "returned" | "abandoned" | "faulted"
    task_state,      \* "none" | "pending" | "running" | "done"
    task_outcome,    \* "none" | "result" | "exception" | "cancelled"
    task_exc,        \* message of the exception the task raised
    must_cancel,     \* Task.cancel() was called on the task while not done
    task_turns,      \* max_turns argument of run_research_agent
    emitted,         \* on_progress calls made by the run
    tool_calls,      \* tool invocations seen by the run
    lastCancel,      \* the latest response of cancel_research, with its id
    accepted,        \* per session: "no", or the state its task was in when
                     \* cancel_research answered "cancelled" for it
    result_text,     \* _extract_report: the ResultMessage's result
    message_texts,   \* _extract_report: the text of each AssistantMessage
    report,          \* what _extract_report returned
    extracted,       \* whether _extract_report has returned
    run_pc,          \* run_research_agent: "idle" | "streaming" | "returned" |
                     \* "failed" (the RuntimeError of line 120) | "aborted"
    received,        \* history: the messages query() has delivered so far
    search_count,
    fetch_count,
    progress,        \* the on_progress calls of the run, in order
    run_error,       \* the counts in the message of the RuntimeError
    run_result,      \* what run_research_agent returned
    heading_call     \* a call of _has_report_heading: its text and its answer

webvars == <<now, registry, pc, requested, max_turns, prompt, queue, started_at,
             last_heartbeat, wait_expired, hb_now, cur, sent, signal_at, rendered, ended,
             task_state,
             task_outcome, task_exc, must_cancel, task_turns, emitted,
             tool_calls, lastCancel, accepted>>

genvars == <<pc, queue, sent, signal_at, wait_expired, hb_now, last_heartbeat, cur>>
taskvars == <<task_state, task_outcome, task_exc, must_cancel, task_turns,
              emitted, tool_calls>>
reqvars == <<requested, max_turns, prompt, started_at>>
cancelvars == <<lastCancel, accepted>>

\* no call of _has_report_heading made or asked for
NoCall == [state |-> "none", text |-> <<>>, found |-> FALSE]

runvars == <<run_pc, received, search_count, fetch_count, progress, run_error,
             run_result>>

exvars == <<result_text, message_texts, report, extracted, runvars, heading_call>>

vars == <<webvars, exvars>>

\* asyncio.Task.done()
TaskDone(s) == task_state[s] = "done"

\* asyncio.Task.cancelled()
TaskCancelled(s) == task_state[s] = "done" /\ task_outcome[s] = "cancelled"

InitWeb ==
    /\ now = 0
    /\ registry = {}
    /\ pc = [s \in Sessions |-> "none"]
    /\ requested = [s \in Sessions |-> 0]
    /\ max_turns = [s \in Sessions |-> 0]
    /\ prompt = [s \in Sessions |-> FALSE]
    /\ queue = [s \in Sessions |-> <<>>]
    /\ started_at = [s \in Sessions |-> 0]
    /\ last_heartbeat = [s \in Sessions |-> 0]
    /\ wait_expired = [s \in Sessions |-> FALSE]
    /\ hb_now = [s \in Sessions |-> 0]
    /\ cur = [s \in Sessions |-> 0]
    /\ sent = [s \in Sessions |-> <<>>]
    /\ signal_at = [s \in Sessions |-> [kept |-> FALSE, at |-> 0]]
    /\ rendered = [s \in Sessions |-> "no"]
    /\ ended = [s \in Sessions |-> "no"]
    /\ task_state = [s \in Sessions |-> "none"]
    /\ task_outcome = [s \in Sessions |-> "none"]
    /\ task_exc = [s \in Sessions |-> "none"]
    /\ must_cancel = [s \in Sessions |-> FALSE]
    /\ task_turns = [s \in Sessions |-> 0]
    /\ emitted = [s \in Sessions |-> 0]
    /\ tool_calls = [s \in Sessions |-> 0]
    /\ lastCancel = [id |-> "", status |-> "none"]
    /\ accepted = [s \in Sessions |-> "no"]
    /\ result_text = <<>>
    /\ message_texts = <<>>
    /\ report = <<>>
    /\ extracted = FALSE
    /\ run_pc = "idle"
    /\ received = <<>>
    /\ search_count = 0
    /\ fetch_count = 0
    /\ progress = <<>>
    /\ run_error = [raised |-> FALSE, searches |-> 0, fetches |-> 0]
    /\ run_result = <<>>
    /\ heading_call = NoCall

\* ------------------------------------------------------------------------
\* The event_stream generator (web.py:38-146)
\* ------------------------------------------------------------------------

\* the generator yields event e and is suspended at label l
Yield(s, l, e) ==
    /\ pc' = [pc EXCEPT ![s] = l]
    /\ sent' = [sent EXCEPT ![s] = Append(@, e)]
    /\ signal_at' = [signal_at EXCEPT ![s] =
                        IF @.kept /\ (e.ev \in {"session", "heartbeat"} \/ e.kind = "progress")
                        THEN [@ EXCEPT !.at = now] ELSE @]

CleanupKeepsTask(s, how) ==
    /\ pc' = [pc EXCEPT ![s] = "closed"]
    /\ ended' = [ended EXCEPT ![s] = how]
    /\ registry' = registry \ {s}
    /\ UNCHANGED must_cancel

\* web.py:141-146, the finally block; how is "returned", "abandoned" or "faulted"
Cleanup(s, how) ==
    /\ pc' = [pc EXCEPT ![s] = "closed"]
    /\ ended' = [ended EXCEPT ![s] = how]
    /\ registry' = registry \ {s}
    /\ must_cancel' = [must_cancel EXCEPT ![s] = @ \/ ~TaskDone(s)]

AfterDrainCancelAsError(s) ==
    IF task_outcome[s] \in {"exception", "cancelled"}
    THEN Yield(s, "y_error", Ev("error_event", task_exc[s], 0))
    ELSE Yield(s, "y_conv", Ev("log", "converting", 0))

AfterDrainIgnoresError(s) ==
    IF TaskCancelled(s)
    THEN Yield(s, "y_cancelled", Ev("cancelled", "", 0))
    ELSE Yield(s, "y_conv", Ev("log", "converting", 0))

\* web.py:89-106, after the drain loop, up to the next yield
AfterDrain(s) ==
    IF TaskCancelled(s)
    THEN Yield(s, "y_cancelled", Ev("cancelled", "", 0))
    ELSE IF task_outcome[s] = "exception"
    THEN Yield(s, "y_error", Ev("error_event", task_exc[s], 0))
    ELSE Yield(s, "y_conv", Ev("log", "converting", 0))

DrainSkipped(s) ==
    /\ UNCHANGED queue
    /\ AfterDrain(s)

\* web.py:85-87, one test of the drain loop, up to the next yield
Drain(s) ==
    IF queue[s] # <<>>
    THEN /\ queue' = [queue EXCEPT ![s] = Tail(@)]
         /\ Yield(s, "y_drain", Ev("log", "progress", Head(queue[s])))
    ELSE /\ UNCHANGED queue
         /\ AfterDrain(s)

\* web.py:70-72, one test of the polling loop, up to the next suspension
LoopHead(s) ==
    IF ~TaskDone(s)
    THEN /\ pc' = [pc EXCEPT ![s] = "wait"]
         /\ wait_expired' = [wait_expired EXCEPT ![s] = FALSE]
         /\ UNCHANGED <<queue, sent, signal_at>>
    ELSE /\ UNCHANGED wait_expired
         /\ Drain(s)

\* web.py:32-46: the request handler, and the generator up to its first yield
stream_research(s, n, p) ==
    /\ pc[s] = "none"
    /\ requested' = [requested EXCEPT ![s] = n]
    /\ max_turns' = [max_turns EXCEPT ![s] = Clamp(n)]
    /\ prompt' = [prompt EXCEPT ![s] = p]
    /\ queue' = [queue EXCEPT ![s] = <<>>]
    /\ started_at' = [started_at EXCEPT ![s] = now]
    /\ Yield(s, "y_session", Ev("session", s, 0))
    /\ UNCHANGED <<now, registry, wait_expired, hb_now, last_heartbeat, cur, rendered,
                   ended, taskvars, cancelvars>>
    /\ UNCHANGED exvars

\* web.py:47-51: the client takes an initial event, the generator yields the next
ResumeInitial(s) ==
    /\ \/ /\ pc[s] = "y_session"
          /\ Yield(s, "y_status0", Ev("status", "researching", 0))
       \/ /\ pc[s] = "y_status0"
          /\ Yield(s, "y_topic", Ev("log", "topic", 0))
       \/ /\ pc[s] = "y_topic"
          /\ Yield(s, "y_turns", Ev("log", "max_turns", max_turns[s]))
       \/ /\ pc[s] = "y_turns"
          /\ prompt[s]
          /\ Yield(s, "y_instr", Ev("log", "instructions", 0))
    /\ UNCHANGED <<now, registry, reqvars, queue, wait_expired, hb_now, last_heartbeat,
                   cur, rendered, ended, taskvars, cancelvars>>
    /\ UNCHANGED exvars

\* web.py:54-72: create the task, register it, enter the polling loop.  The
\* new task has not run yet, so it is not done and the queue is empty.
StartAgent(s) ==
    /\ \/ pc[s] = "y_turns" /\ ~prompt[s]
       \/ pc[s] = "y_instr"
    /\ task_state' = [task_state EXCEPT ![s] = "pending"]
    /\ task_turns' = [task_turns EXCEPT ![s] = max_turns[s]]
    /\ registry' = registry \cup {s}
    /\ last_heartbeat' = [last_heartbeat EXCEPT ![s] = started_at[s]]
    /\ pc' = [pc EXCEPT ![s] = "wait"]
    /\ wait_expired' = [wait_expired EXCEPT ![s] = FALSE]
    /\ UNCHANGED <<now, reqvars, queue, hb_now, cur, sent, signal_at, rendered, ended,
                   task_outcome, task_exc, must_cancel, emitted, tool_calls,
                   cancelvars>>
    /\ UNCHANGED exvars

\* web.py:72-73: queue.get() returns a message, the generator yields its log
QueueGet(s) ==
    /\ pc[s] = "wait"
    /\ queue[s] # <<>>
    /\ cur' = [cur EXCEPT ![s] = Head(queue[s])]
    /\ queue' = [queue EXCEPT ![s] = Tail(@)]
    /\ Yield(s, "y_log", Ev("log", "progress", Head(queue[s])))
    /\ UNCHANGED <<now, registry, reqvars, wait_expired, hb_now, last_heartbeat,
                   rendered, ended, taskvars, cancelvars>>
    /\ UNCHANGED exvars

ResumeAfterLogNoStatus(s) ==
    /\ pc[s] = "y_log"
    /\ last_heartbeat' = [last_heartbeat EXCEPT ![s] = now]
    /\ LoopHead(s)
    /\ UNCHANGED <<now, registry, reqvars, hb_now, cur, rendered, ended, taskvars,
                   cancelvars>>
    /\ UNCHANGED exvars

\* web.py:74
ResumeAfterLog(s) ==
    /\ pc[s] = "y_log"
    /\ Yield(s, "y_status", Ev("status", "progress", cur[s]))
    /\ UNCHANGED <<now, registry, reqvars, queue, wait_expired, hb_now, last_heartbeat,
                   cur, rendered, ended, taskvars, cancelvars>>
    /\ UNCHANGED exvars

ResumeAfterStatusStale(s) ==
    /\ pc[s] = "y_status"
    /\ UNCHANGED last_heartbeat
    /\ LoopHead(s)
    /\ UNCHANGED <<now, registry, reqvars, hb_now, cur, rendered, ended, taskvars,
                   cancelvars>>
    /\ UNCHANGED exvars

\* web.py:75, then the loop test
ResumeAfterStatus(s) ==
    /\ pc[s] = "y_status"
    /\ last_heartbeat' = [last_heartbeat EXCEPT ![s] = now]
    /\ LoopHead(s)
    /\ UNCHANGED <<now, registry, reqvars, hb_now, cur, rendered, ended, taskvars,
                   cancelvars>>
    /\ UNCHANGED exvars

\* web.py:76-82: wait_for times out; a heartbeat if the interval has elapsed,
\* else the loop test
WaitTimeout(s) ==
    /\ pc[s] = "wait"
    /\ wait_expired[s]
    /\ IF now - last_heartbeat[s] >= heartbeat_interval
       THEN /\ Yield(s, "y_hb", Ev("heartbeat", "elapsed", now - started_at[s]))
            /\ hb_now' = [hb_now EXCEPT ![s] = now]
            /\ UNCHANGED <<queue, wait_expired>>
       ELSE /\ LoopHead(s)
            /\ UNCHANGED hb_now
    /\ UNCHANGED <<now, registry, reqvars, last_heartbeat, cur, rendered,
                   ended, taskvars, cancelvars>>
    /\ UNCHANGED exvars

\* web.py:82, then the loop test
ResumeAfterHeartbeat(s) ==
    /\ pc[s] = "y_hb"
    /\ last_heartbeat' = [last_heartbeat EXCEPT ![s] = hb_now[s]]
    /\ LoopHead(s)
    /\ UNCHANGED <<now, registry, reqvars, hb_now, cur, rendered, ended, taskvars,
                   cancelvars>>
    /\ UNCHANGED exvars

\* web.py:85-87: the client takes a drained log, the drain loop goes on
ResumeDrain(s) ==
    /\ pc[s] = "y_drain"
    /\ Drain(s)
    /\ UNCHANGED <<now, registry, reqvars, wait_expired, hb_now, last_heartbeat, cur,
                   rendered, ended, taskvars, cancelvars>>
    /\ UNCHANGED exvars

\* web.py:106
ResumeConverting(s) ==
    /\ pc[s] = "y_conv"
    /\ Yield(s, "y_gen", Ev("status", "generating", 0))
    /\ UNCHANGED <<now, registry, reqvars, queue, wait_expired, hb_now, last_heartbeat,
                   cur, rendered, ended, taskvars, cancelvars>>
    /\ UNCHANGED exvars

\* web.py:108-132: render_pdf returns; the page count is best effort
RenderOk(s) ==
    /\ pc[s] = "y_gen"
    /\ rendered' = [rendered EXCEPT ![s] = "ok"]
    /\ Yield(s, "y_saved", Ev("log", "saved", 0))
    /\ UNCHANGED <<now, registry, reqvars, queue, wait_expired, hb_now, last_heartbeat,
                   cur, ended, taskvars, cancelvars>>
    /\ UNCHANGED exvars

\* web.py:114-121: render_pdf raises, the markdown fallback file is written
RenderFails(s) ==
    /\ pc[s] = "y_gen"
    /\ rendered' = [rendered EXCEPT ![s] = "failed"]
    /\ Yield(s, "y_pdferr", Ev("error_event", "pdf_failed", 0))
    /\ UNCHANGED <<now, registry, reqvars, queue, wait_expired, hb_now, last_heartbeat,
                   cur, ended, taskvars, cancelvars>>
    /\ UNCHANGED exvars

\* web.py:114-117, 141-146: render_pdf raises and, inside the handler,
\* md_fallback.write_text raises too (a topic with "/" in its first 40
\* characters names a file in a directory that does not exist; an output
\* directory that cannot be written).  The exception leaves the generator
\* through the finally block.
RenderFallbackFails(s) ==
    /\ pc[s] = "y_gen"
    /\ rendered' = [rendered EXCEPT ![s] = "failed"]
    /\ Cleanup(s, "faulted")
    /\ UNCHANGED <<now, reqvars, queue, wait_expired, hb_now, last_heartbeat, cur, sent, signal_at,
                   task_state, task_outcome, task_exc, task_turns, emitted,
                   tool_calls, cancelvars>>
    /\ UNCHANGED exvars

\* web.py:133
ResumeSaved(s) ==
    /\ pc[s] = "y_saved"
    /\ Yield(s, "y_complete", Ev("complete", "", 0))
    /\ UNCHANGED <<now, registry, reqvars, queue, wait_expired, hb_now, last_heartbeat,
                   cur, rendered, ended, taskvars, cancelvars>>
    /\ UNCHANGED exvars

\* web.py:92, 99, 102, 122, 140: the client takes the terminal event, the
\* generator returns through the finally block
ResumeTerminal(s) ==
    /\ pc[s] \in {"y_cancelled", "y_error", "y_pdferr", "y_complete"}
    /\ Cleanup(s, "returned")
    /\ UNCHANGED <<now, reqvars, queue, wait_expired, hb_now, last_heartbeat, cur, sent, signal_at,
                   rendered, task_state, task_outcome, task_exc, task_turns,
                   emitted, tool_calls, cancelvars>>
    /\ UNCHANGED exvars

\* The client goes away: the generator is closed where it is suspended.  From
\* line 66 on that is inside the try, and the finally block runs; before the
\* task exists there is nothing to clean up.
Abandon(s) ==
    /\ pc[s] \notin {"none", "closed"}
    /\ IF task_state[s] = "none"
       THEN /\ pc' = [pc EXCEPT ![s] = "closed"]
            /\ ended' = [ended EXCEPT ![s] = "abandoned"]
            /\ UNCHANGED <<registry, must_cancel>>
       ELSE Cleanup(s, "abandoned")
    /\ UNCHANGED <<now, reqvars, queue, wait_expired, hb_now, last_heartbeat, cur, sent, signal_at,
                   rendered, task_state, task_outcome, task_exc, task_turns,
                   emitted, tool_calls, cancelvars>>
    /\ UNCHANGED exvars

\* ------------------------------------------------------------------------
\* cancel_research (web.py:151-162)
\* ------------------------------------------------------------------------

CancelAcceptsDone(id) == id \in registry

\* web.py:157-158: the task popped for the id is there and not done
CancelAccepts(id) == id \in registry /\ ~TaskDone(id)

cancel_research_clear(id) ==
    /\ registry' = {}
    /\ IF CancelAccepts(id)
       THEN /\ must_cancel' = [must_cancel EXCEPT ![id] = TRUE]
            /\ lastCancel' = [id |-> id, status |-> "cancelled"]
            /\ accepted' = [accepted EXCEPT ![id] = task_state[id]]
       ELSE /\ lastCancel' = [id |-> id, status |-> "not_found"]
            /\ UNCHANGED <<must_cancel, accepted>>
    /\ UNCHANGED <<now, reqvars, genvars, rendered, ended, task_state,
                   task_outcome, task_exc, task_turns, emitted, tool_calls>>
    /\ UNCHANGED exvars

\* web.py:151-162
cancel_research(id) ==
    /\ registry' = registry \ {id}
    /\ IF CancelAccepts(id)
       THEN /\ must_cancel' = [must_cancel EXCEPT ![id] = TRUE]
            /\ lastCancel' = [id |-> id, status |-> "cancelled"]
            /\ accepted' = [accepted EXCEPT ![id] = task_state[id]]
       ELSE /\ lastCancel' = [id |-> id, status |-> "not_found"]
            /\ UNCHANGED <<must_cancel, accepted>>
    /\ UNCHANGED <<now, reqvars, genvars, rendered, ended, task_state,
                   task_outcome, task_exc, task_turns, emitted, tool_calls>>
    /\ UNCHANGED exvars

\* ------------------------------------------------------------------------
\* The agent task (agent.py:22-127, as the manager sees it)
\* ------------------------------------------------------------------------

on_progress_front(q, k) == <<k>> \o q

\* web.py:42-43 on_progress: the k-th call of the run puts message k
on_progress(q, k) == Append(q, k)

\* n on_progress calls in a row, the first one numbered k
RECURSIVE EmitN(_, _, _)
EmitN(q, k, n) == IF n = 0 THEN q ELSE EmitN(on_progress(q, k), k + 1, n - 1)

\* the task ends: Task.done() is true from here on
Finish(s, outcome, exc) ==
    /\ task_state' = [task_state EXCEPT ![s] = "done"]
    /\ task_outcome' = [task_outcome EXCEPT ![s] = outcome]
    /\ task_exc' = [task_exc EXCEPT ![s] = exc]

\* The first step of the task.  A cancellation requested before it is thrown
\* into the coroutine before any of its code runs.  Else the run loads its
\* prompts (agent.py:37-38, which may raise), emits "Agent initialized"
\* (agent.py:59) and suspends in query() (agent.py:71).
TaskFirstStep(s) ==
    /\ task_state[s] = "pending"
    /\ IF must_cancel[s]
       THEN /\ Finish(s, "cancelled", "none")
            /\ UNCHANGED <<queue, emitted>>
       ELSE \/ /\ task_state' = [task_state EXCEPT ![s] = "running"]
               /\ queue' = [queue EXCEPT ![s] = on_progress(@, emitted[s] + 1)]
               /\ emitted' = [emitted EXCEPT ![s] = @ + 1]
               /\ UNCHANGED <<task_outcome, task_exc>>
            \/ /\ Finish(s, "exception", "runtime_failure")
               /\ UNCHANGED <<queue, emitted>>
    /\ UNCHANGED <<now, registry, reqvars, pc, sent, signal_at, wait_expired,
                   hb_now, last_heartbeat, cur, rendered, ended, must_cancel,
                   task_turns, tool_calls, cancelvars>>
    /\ UNCHANGED exvars

\* agent.py:77-87: the runtime delivers a WebSearch or WebFetch invocation
TaskToolUse(s) ==
    /\ task_state[s] = "running"
    /\ ~must_cancel[s]
    /\ tool_calls[s] < MaxToolCalls
    /\ tool_calls' = [tool_calls EXCEPT ![s] = @ + 1]
    /\ queue' = [queue EXCEPT ![s] = on_progress(@, emitted[s] + 1)]
    /\ emitted' = [emitted EXCEPT ![s] = @ + 1]
    /\ UNCHANGED <<now, registry, reqvars, pc, sent, signal_at, wait_expired,
                   hb_now, last_heartbeat, cur, rendered, ended, task_state,
                   task_outcome, task_exc, must_cancel, task_turns, cancelvars>>
    /\ UNCHANGED exvars

\* agent.py:96-127: the message stream is exhausted.  The run emits its
\* summary (lines 96, 101 and, with any message text, 115) and either raises
\* "no report content" (line 120) or emits line 126 and returns the report.
TaskReturns(s) ==
    /\ task_state[s] = "running"
    /\ ~must_cancel[s]
    /\ \E n \in {2, 3} :
          \/ /\ Finish(s, "exception", "no_report")
             /\ queue' = [queue EXCEPT ![s] = EmitN(@, emitted[s] + 1, n)]
             /\ emitted' = [emitted EXCEPT ![s] = @ + n]
          \/ /\ n = 3
             /\ Finish(s, "result", "none")
             /\ queue' = [queue EXCEPT ![s] = EmitN(@, emitted[s] + 1, n + 1)]
             /\ emitted' = [emitted EXCEPT ![s] = @ + n + 1]
    /\ UNCHANGED <<now, registry, reqvars, pc, sent, signal_at, wait_expired,
                   hb_now, last_heartbeat, cur, rendered, ended, must_cancel,
                   task_turns, tool_calls, cancelvars>>
    /\ UNCHANGED exvars

\* agent.py:71: the runtime raises, or the run is cancelled: by a request
\* (Task.cancel() throws CancelledError at the suspension point) or from
\* inside the runtime
TaskRaises(s) ==
    /\ task_state[s] = "running"
    /\ IF must_cancel[s]
       THEN Finish(s, "cancelled", "none")
       ELSE \/ Finish(s, "exception", "runtime_failure")
            \/ Finish(s, "cancelled", "none")
    /\ UNCHANGED <<now, registry, reqvars, genvars, rendered, ended,
                   must_cancel, task_turns, emitted, tool_calls, cancelvars>>
    /\ UNCHANGED exvars

\* The event-loop clock advances by one queue timeout, and the waits pending
\* at that moment time out.  The clock is followed up to limit: from there on
\* it reads limit, and the waits still time out.
Advance(limit) ==
    /\ \E s \in Sessions : pc[s] \notin {"none", "closed"}
    /\ \/ now < limit
       \/ \E s \in Sessions : pc[s] = "wait" /\ ~wait_expired[s]
    /\ now' = Min(now + QueueTimeout, limit)
    /\ wait_expired' = [s \in Sessions |-> wait_expired[s] \/ pc[s] = "wait"]
    /\ UNCHANGED <<registry, reqvars, pc, queue, sent, signal_at, hb_now,
                   last_heartbeat, cur, rendered, ended, taskvars, cancelvars>>
    /\ UNCHANGED exvars

Tick == Advance(MaxTime)

NextWeb ==
    \/ \E s \in Sessions, n \in SessionTurns, p \in BOOLEAN : stream_research(s, n, p)
    \/ \E s \in Sessions : ResumeInitial(s)
    \/ \E s \in Sessions : StartAgent(s)
    \/ \E s \in Sessions : QueueGet(s)
    \/ \E s \in Sessions : ResumeAfterLog(s)
    \/ \E s \in Sessions : ResumeAfterStatus(s)
    \/ \E s \in Sessions : WaitTimeout(s)
    \/ \E s \in Sessions : ResumeAfterHeartbeat(s)
    \/ \E s \in Sessions : ResumeDrain(s)
    \/ \E s \in Sessions : ResumeConverting(s)
    \/ \E s \in Sessions : RenderOk(s)
    \/ \E s \in Sessions : RenderFails(s)
    \/ \E s \in Sessions : RenderFallbackFails(s)
    \/ \E s \in Sessions : ResumeSaved(s)
    \/ \E s \in Sessions : ResumeTerminal(s)
    \/ \E s \in Sessions : Abandon(s)
    \/ \E id \in CancelIds : cancel_research(id)
    \/ \E s \in Sessions : TaskFirstStep(s)
    \/ \E s \in Sessions : TaskToolUse(s)
    \/ \E s \in Sessions : TaskReturns(s)
    \/ \E s \in Sessions : TaskRaises(s)
    \/ Tick

Spec == InitWeb /\ [][NextWeb]_vars

\* ------------------------------------------------------------------------
\* Texts (agent.py:130-221 works on Python str)
\* ------------------------------------------------------------------------

\* A text is a run-length encoded string: a sequence of runs [c, n], n >= 1
\* copies of the character c, no two neighbouring runs of the same
\* character.  The characters are "#", " " (a space), "\n" (a line break),
\* "x" (any other character) and "K": one of the title words of
\* agent.py:144 (Market, Research, ...), in any case, six characters wide.
Run(c, n) == [c |-> c, n |-> n]

\* the characters str.strip() removes
Whitespace == {" ", "\n"}

\* characters a run stands for
Width(r) == IF r.c = "K" THEN 6 * r.n ELSE r.n

\* len(text)
RECURSIVE TextLen(_)
TextLen(t) == IF t = <<>> THEN 0 ELSE Width(Head(t)) + TextLen(Tail(t))

\* a + b
Cat(a, b) ==
    IF a = <<>> THEN b
    ELSE IF b = <<>> THEN a
    ELSE IF a[Len(a)].c = b[1].c
    THEN SubSeq(a, 1, Len(a) - 1)
             \o <<Run(b[1].c, a[Len(a)].n + b[1].n)>> \o Tail(b)
    ELSE a \o b

RECURSIVE LStrip(_)
LStrip(t) ==
    IF t # <<>> /\ Head(t).c \in Whitespace THEN LStrip(Tail(t)) ELSE t

RECURSIVE RStrip(_)
RStrip(t) ==
    IF t # <<>> /\ t[Len(t)].c \in Whitespace
    THEN RStrip(SubSeq(t, 1, Len(t) - 1))
    ELSE t

\* text.strip()
Strip(t) == RStrip(LStrip(t))

BlankLine == <<Run("\n", 2)>>

\* "\n\n".join(texts)
RECURSIVE JoinBlank(_)
JoinBlank(texts) ==
    IF texts = <<>> THEN <<>>
    ELSE IF Len(texts) = 1 THEN texts[1]
    ELSE Cat(Cat(texts[1], BlankLine), JoinBlank(Tail(texts)))

\* texts[-n:], for n in 1..len(texts)
LastN(texts, n) == SubSeq(texts, Len(texts) - n + 1, Len(texts))

\* text[i:], from the start of run i
From(t, i) == SubSeq(t, i, Len(t))

\* re.MULTILINE ^ : run i starts a line
LineStart(t, i) == i = 1 \/ t[i - 1].c = "\n"

\* " .+" matches from run i: a space, then a character that is no line break
SpaceThenAny(t, i) ==
    /\ i <= Len(t)
    /\ t[i].c = " "
    /\ \/ t[i].n >= 2
       \/ i + 1 <= Len(t) /\ t[i + 1].c # "\n"

\* "^# .+" (agent.py:133, 190) matches at run i
H1At(t, i) ==
    /\ LineStart(t, i)
    /\ t[i] = Run("#", 1)
    /\ SpaceThenAny(t, i + 1)

\* "^## .+" (agent.py:135) matches at run i
H2At(t, i) ==
    /\ LineStart(t, i)
    /\ t[i] = Run("#", 2)
    /\ SpaceThenAny(t, i + 1)

\* agent.py:130-138 _is_report_text
IsReportText(text, min_length) ==
    /\ \E i \in 1..Len(text) : H1At(text, i)
    /\ \E i \in 1..Len(text) : H2At(text, i)
    /\ TextLen(text) > min_length

\* agent.py:130  min_length: int = 1000
DefaultMinLength == 1000

\* agent.py:202, 208, 213  min_length=500
LowMinLength == 500

\* agent.py:194  len(report_portion) > 300
PortionMinLength == 300

\* agent.py:199  len(result_text) > 200
ResultMinLength == 200

\* agent.py:171, 211  range(2, min(8, ...))
WindowStop == 8

\* agent.py:200  range(1, min(5, ...))
ResultWindowStop == 5

\* run j is on the line of run i (i <= j): no line break from i to j
SameLine(t, i, j) == \A k \in i..j : t[k].c # "\n"

\* "^(# .+(?:Market|Research|Brief|Report|Analysis|Overview|Executive))" with
\* re.IGNORECASE (agent.py:144, 184) matches at run i: a title word on the
\* heading's line, at least one character after "# "
TitledH1At(t, i) ==
    /\ H1At(t, i)
    /\ \E j \in (i + 2)..Len(t) :
          /\ t[j].c = "K"
          /\ SameLine(t, i, j)
          /\ t[i + 1].n >= 2 \/ j > i + 2 \/ t[j].n >= 2

\* the start of the leftmost match, 0 for no match
FirstOf(S) == IF S = {} THEN 0 ELSE CHOOSE i \in S : \A j \in S : i <= j

ReportStartAnyFirst(full_text) ==
    FirstOf({i \in 1..Len(full_text) : H1At(full_text, i)})

\* agent.py:183-190: where the report starts
ReportStart(full_text) ==
    LET titled == FirstOf({i \in 1..Len(full_text) : TitledH1At(full_text, i)})
    IN  IF titled # 0 THEN titled
        ELSE FirstOf({i \in 1..Len(full_text) : H1At(full_text, i)})

\* agent.py:164-166, 207-209: the last message that is a report, 0 for none
LastReportMessage(texts, min_length) ==
    LET S == {i \in 1..Len(texts) : IsReportText(texts[i], min_length)}
    IN  IF S = {} THEN 0 ELSE CHOOSE i \in S : \A j \in S : j <= i

\* agent.py:171, 211: range(2, min(8, len(message_texts) + 1))
Windows(texts) == 2..Min(WindowStop - 1, Len(texts))

LargestWindow(texts, min_length) ==
    LET S == {n \in Windows(texts) :
                  IsReportText(JoinBlank(LastN(texts, n)), min_length)}
    IN  IF S = {} THEN 0 ELSE CHOOSE n \in S : \A m \in S : m <= n

\* agent.py:171-174, 211-214: the first window whose join is a report, 0 for none
FirstWindow(texts, min_length) ==
    FirstOf({n \in Windows(texts) :
                 IsReportText(JoinBlank(LastN(texts, n)), min_length)})

\* agent.py:200-203: the first n for which the last n messages and the
\* result are a report, 0 for none
FirstResultWindow(result, texts) ==
    FirstOf({n \in 1..Min(ResultWindowStop - 1, Len(texts)) :
                 IsReportText(Cat(Cat(JoinBlank(LastN(texts, n)), BlankLine), result),
                              LowMinLength)})

\* agent.py:178-180
FullText(result, texts) ==
    IF result # <<>>
    THEN Cat(Cat(JoinBlank(texts), BlankLine), result)
    ELSE JoinBlank(texts)

ExtractFallbackEmpty(result, texts) ==
    IF /\ result # <<>>
       /\ TextLen(result) > ResultMinLength
       /\ FirstResultWindow(result, texts) # 0
    THEN Strip(Cat(Cat(JoinBlank(LastN(texts, FirstResultWindow(result, texts))),
                       BlankLine), result))
    ELSE IF LastReportMessage(texts, LowMinLength) # 0
    THEN Strip(texts[LastReportMessage(texts, LowMinLength)])
    ELSE IF FirstWindow(texts, LowMinLength) # 0
    THEN Strip(JoinBlank(LastN(texts, FirstWindow(texts, LowMinLength))))
    ELSE Strip(FullText(result, texts))

\* agent.py:197-221: strategies 5 to 7
ExtractFallback(result, texts) ==
    IF /\ result # <<>>
       /\ TextLen(result) > ResultMinLength
       /\ FirstResultWindow(result, texts) # 0
    THEN Strip(Cat(Cat(JoinBlank(LastN(texts, FirstResultWindow(result, texts))),
                       BlankLine), result))
    ELSE IF LastReportMessage(texts, LowMinLength) # 0
    THEN Strip(texts[LastReportMessage(texts, LowMinLength)])
    ELSE IF FirstWindow(texts, LowMinLength) # 0
    THEN Strip(JoinBlank(LastN(texts, FirstWindow(texts, LowMinLength))))
    ELSE IF Strip(FullText(result, texts)) # <<>>
    THEN Strip(FullText(result, texts))
    ELSE result

\* agent.py:176-195: strategy 4, then the later ones
ExtractFromHeading(result, texts) ==
    LET full_text == FullText(result, texts)
        start == ReportStart(full_text)
    IN  IF start # 0 /\ TextLen(Strip(From(full_text, start))) > PortionMinLength
        THEN Strip(From(full_text, start))
        ELSE ExtractFallback(result, texts)

ExtractMessagesFirst(result, texts) ==
    IF LastReportMessage(texts, DefaultMinLength) # 0
    THEN Strip(texts[LastReportMessage(texts, DefaultMinLength)])
    ELSE IF result # <<>> /\ IsReportText(result, DefaultMinLength)
    THEN Strip(result)
    ELSE IF FirstWindow(texts, DefaultMinLength) # 0
    THEN Strip(JoinBlank(LastN(texts, FirstWindow(texts, DefaultMinLength))))
    ELSE ExtractFromHeading(result, texts)

\* agent.py:150-221 _extract_report
Extract(result, texts) ==
    IF result # <<>> /\ IsReportText(result, DefaultMinLength)
    THEN Strip(result)
    ELSE IF LastReportMessage(texts, DefaultMinLength) # 0
    THEN Strip(texts[LastReportMessage(texts, DefaultMinLength)])
    ELSE IF FirstWindow(texts, DefaultMinLength) # 0
    THEN Strip(JoinBlank(LastN(texts, FirstWindow(texts, DefaultMinLength))))
    ELSE ExtractFromHeading(result, texts)

\* ------------------------------------------------------------------------
\* The report extractor on the outputs of a run
\* ------------------------------------------------------------------------

\* The runs explored: up to MaxShortRun messages drawn from MessagePool, up to
\* MaxMidRun from MidPool, up to MaxMessages from LongPool.
MaxShortRun == 2
MaxMidRun == 4
MaxMessages == 8

\* "# x", "## x": a top-level and a second-level heading
Heading1 == <<Run("#", 1), Run(" ", 1), Run("x", 1)>>
Heading2 == <<Run("#", 2), Run(" ", 1), Run("x", 1)>>
LineBreak == <<Run("\n", 1)>>
Body(n) == <<Run("x", n)>>

\* "xx": a note of the research phase
Note == Body(2)

\* " \n# x\n" + 600 * "x" + "\n": the first half of a report, between spaces
HalfA ==
    Cat(<<Run(" ", 1)>>,
        Cat(LineBreak, Cat(Heading1, Cat(LineBreak, Cat(Body(600), LineBreak)))))

\* "## x\n" + 600 * "x": the second half of a report
HalfB == Cat(Heading2, Cat(LineBreak, Body(600)))

\* "# x\n## x\n" + n * "x": 9 + n characters
ReportOf(n) ==
    Cat(Heading1, Cat(LineBreak, Cat(Heading2, Cat(LineBreak, Body(n)))))

\* a whole report with spaces around it, and one of exactly 1000 characters
Padded(t) == Cat(<<Run(" ", 2)>>, Cat(LineBreak, Cat(t, LineBreak)))

\* the texts of the messages of the longest runs
LongPool == {HalfA, HalfB}

\* the texts of the messages of a run of at most MaxMidRun messages
MidPool == LongPool \cup {Note}

\* the texts of the messages of a run of at most MaxShortRun messages
MessagePool ==
    MidPool \cup {<<>>, <<Run(" ", 1)>>, ReportOf(992), ReportOf(991),
                    Padded(ReportOf(1500))}

\* the results of the ResultMessage
ResultPool ==
    {<<>>, <<Run(" ", 1)>>, Note, HalfB, ReportOf(991), ReportOf(992),
     Padded(ReportOf(2000))}

RunsOf(pool, lo, hi) == UNION {[1..k -> pool] : k \in lo..hi}

InitExtract ==
    /\ result_text \in ResultPool
    /\ message_texts \in RunsOf(MessagePool, 0, MaxShortRun)
                           \cup RunsOf(MidPool, MaxShortRun + 1, MaxMidRun)
                           \cup RunsOf(LongPool, MaxMidRun + 1, MaxMessages)
    /\ report = <<>>
    /\ extracted = FALSE
    /\ run_pc = "idle"
    /\ received = <<>>
    /\ search_count = 0
    /\ fetch_count = 0
    /\ progress = <<>>
    /\ run_error = [raised |-> FALSE, searches |-> 0, fetches |-> 0]
    /\ run_result = <<>>
    /\ heading_call = NoCall
    /\ now = 0
    /\ registry = {}
    /\ pc = [s \in Sessions |-> "none"]
    /\ requested = [s \in Sessions |-> 0]
    /\ max_turns = [s \in Sessions |-> 0]
    /\ prompt = [s \in Sessions |-> FALSE]
    /\ queue = [s \in Sessions |-> <<>>]
    /\ started_at = [s \in Sessions |-> 0]
    /\ last_heartbeat = [s \in Sessions |-> 0]
    /\ wait_expired = [s \in Sessions |-> FALSE]
    /\ hb_now = [s \in Sessions |-> 0]
    /\ cur = [s \in Sessions |-> 0]
    /\ sent = [s \in Sessions |-> <<>>]
    /\ signal_at = [s \in Sessions |-> [kept |-> FALSE, at |-> 0]]
    /\ rendered = [s \in Sessions |-> "no"]
    /\ ended = [s \in Sessions |-> "no"]
    /\ task_state = [s \in Sessions |-> "none"]
    /\ task_outcome = [s \in Sessions |-> "none"]
    /\ task_exc = [s \in Sessions |-> "none"]
    /\ must_cancel = [s \in Sessions |-> FALSE]
    /\ task_turns = [s \in Sessions |-> 0]
    /\ emitted = [s \in Sessions |-> 0]
    /\ tool_calls = [s \in Sessions |-> 0]
    /\ lastCancel = [id |-> "", status |-> "none"]
    /\ accepted = [s \in Sessions |-> "no"]

\* agent.py:117  report = _extract_report(result_text, message_texts)
ExtractReport ==
    /\ ~extracted
    /\ report' = Extract(result_text, message_texts)
    /\ extracted' = TRUE
    /\ UNCHANGED <<result_text, message_texts, webvars, heading_call, runvars>>

NextExtract == ExtractReport

SpecExtract == InitExtract /\ [][NextExtract]_vars

\* ------------------------------------------------------------------------
\* run_research_agent (agent.py:22-127)
\* ------------------------------------------------------------------------

\* messages one run may receive from the runtime
MaxRunMessages == 3

\* content blocks of an AssistantMessage
TextBlock(t) == [b |-> "text", text |-> t, name |-> ""]
ToolUseBlock(nm) == [b |-> "tool", text |-> <<>>, name |-> nm]

\* messages of the runtime: an AssistantMessage with its content, a
\* ResultMessage with its result (has: the result is not None), any other
AssistantMessage(content) ==
    [m |-> "assistant", content |-> content, has |-> FALSE, result |-> <<>>]
ResultMessage(has, r) ==
    [m |-> "result", content |-> <<>>, has |-> has, result |-> r]
SystemMessage == [m |-> "system", content |-> <<>>, has |-> FALSE, result |-> <<>>]

\* the contents of the AssistantMessages explored: texts that are empty,
\* whitespace only or a note, searches, fetches, another tool, and mixes
Contents ==
    {<<>>,
     <<TextBlock(<<>>)>>, <<TextBlock(<<Run(" ", 1)>>)>>, <<TextBlock(Note)>>,
     <<ToolUseBlock("WebSearch")>>, <<ToolUseBlock("WebFetch")>>,
     <<ToolUseBlock("Bash")>>,
     <<ToolUseBlock("WebSearch"), ToolUseBlock("WebFetch")>>,
     <<ToolUseBlock("WebFetch"), ToolUseBlock("WebSearch")>>,
     <<ToolUseBlock("WebSearch"), ToolUseBlock("WebSearch")>>,
     <<ToolUseBlock("Bash"), ToolUseBlock("WebFetch")>>,
     <<TextBlock(Note), ToolUseBlock("WebSearch"), TextBlock(<<>>)>>}

\* the results of the ResultMessages explored
RunResults == {<<>>, <<Run(" ", 1)>>, Note, Body(3)}

\* agent.py:55-57 _emit with a callback: one on_progress call
Emit(calls, type, what, n, k) ==
    Append(calls, [type |-> type, what |-> what, n |-> n, k |-> k])

\* "\n".join(msg_text_parts)
RECURSIVE JoinLines(_)
JoinLines(parts) ==
    IF parts = <<>> THEN <<>>
    ELSE IF Len(parts) = 1 THEN parts[1]
    ELSE Cat(Cat(parts[1], LineBreak), JoinLines(Tail(parts)))

OnBlockSharedCounter(st, block) ==
    IF block.b = "text"
    THEN [st EXCEPT !.parts = Append(@, block.text)]
    ELSE IF block.name = "WebSearch"
    THEN [st EXCEPT !.search = @ + 1,
                    !.calls = Emit(@, "search", "searching", st.search + 1, 0)]
    ELSE IF block.name = "WebFetch"
    THEN [st EXCEPT !.fetch = @ + 1,
                    !.calls = Emit(@, "fetch", "reading", st.search + 1, 0)]
    ELSE st

\* agent.py:75-87: one block of an AssistantMessage
OnBlock(st, block) ==
    IF block.b = "text"
    THEN [st EXCEPT !.parts = Append(@, block.text)]
    ELSE IF block.name = "WebSearch"
    THEN [st EXCEPT !.search = @ + 1,
                    !.calls = Emit(@, "search", "searching", st.search + 1, 0)]
    ELSE IF block.name = "WebFetch"
    THEN [st EXCEPT !.fetch = @ + 1,
                    !.calls = Emit(@, "fetch", "reading", st.fetch + 1, 0)]
    ELSE st

\* agent.py:74-87: the blocks of an AssistantMessage, in order
RECURSIVE OnBlocks(_, _)
OnBlocks(st, content) ==
    IF content = <<>> THEN st
    ELSE OnBlocks(OnBlock(st, Head(content)), Tail(content))

\* agent.py:59-71: the run starts and waits for the first message
RunStart ==
    /\ run_pc = "idle"
    /\ run_pc' = "streaming"
    /\ progress' = Emit(progress, "phase", "initialized", 0, 0)
    /\ message_texts' = <<>>
    /\ result_text' = <<>>
    /\ search_count' = 0
    /\ fetch_count' = 0
    /\ UNCHANGED <<received, run_error, run_result, report, extracted, webvars, heading_call>>

\* agent.py:72-90: an AssistantMessage arrives
RecvAssistant(content) ==
    /\ run_pc = "streaming"
    /\ Len(received) < MaxRunMessages
    /\ received' = Append(received, AssistantMessage(content))
    /\ LET st == OnBlocks([search |-> search_count, fetch |-> fetch_count,
                           calls |-> progress, parts |-> <<>>], content)
       IN  /\ search_count' = st.search
           /\ fetch_count' = st.fetch
           /\ progress' = st.calls
           /\ message_texts' = IF st.parts # <<>>
                               THEN Append(message_texts, JoinLines(st.parts))
                               ELSE message_texts
    /\ UNCHANGED <<run_pc, result_text, run_error, run_result, report, extracted,
                   webvars, heading_call>>

RecvResultOverwrites(has, r) ==
    /\ run_pc = "streaming"
    /\ Len(received) < MaxRunMessages
    /\ received' = Append(received, ResultMessage(has, r))
    /\ result_text' = IF has THEN r ELSE <<>>
    /\ UNCHANGED <<run_pc, message_texts, search_count, fetch_count, progress,
                   run_error, run_result, report, extracted, webvars, heading_call>>

\* agent.py:92-94: a ResultMessage arrives
RecvResult(has, r) ==
    /\ run_pc = "streaming"
    /\ Len(received) < MaxRunMessages
    /\ received' = Append(received, ResultMessage(has, r))
    /\ result_text' = IF has /\ r # <<>> THEN r ELSE result_text
    /\ UNCHANGED <<run_pc, message_texts, search_count, fetch_count, progress,
                   run_error, run_result, report, extracted, webvars, heading_call>>

\* agent.py:71-94: a message that is neither arrives
RecvOther ==
    /\ run_pc = "streaming"
    /\ Len(received) < MaxRunMessages
    /\ received' = Append(received, SystemMessage)
    /\ UNCHANGED <<run_pc, result_text, message_texts, search_count, fetch_count,
                   progress, run_error, run_result, report, extracted, webvars, heading_call>>

\* agent.py:96-115: the summary of the run
Summary ==
    LET done == Emit(progress, "phase", "research_done", search_count, fetch_count)
        collected == Emit(done, "phase", "collected", Len(message_texts),
                          TextLen(result_text))
    IN  IF message_texts # <<>>
        THEN Emit(collected, "phase", "largest", 0, 0)
        ELSE collected

RunEndsUntrimmed ==
    /\ run_pc = "streaming"
    /\ report' = Extract(result_text, message_texts)
    /\ extracted' = TRUE
    /\ IF report' = <<>>
       THEN /\ run_pc' = "failed"
            /\ run_error' = [raised |-> TRUE, searches |-> search_count,
                             fetches |-> fetch_count]
            /\ progress' = Summary
            /\ UNCHANGED run_result
       ELSE /\ run_pc' = "returned"
            /\ run_result' = report'
            /\ progress' = Emit(Summary, "phase", "extracted", TextLen(report'), 0)
            /\ UNCHANGED run_error
    /\ UNCHANGED <<received, result_text, message_texts, search_count, fetch_count,
                   webvars, heading_call>>

\* agent.py:96-127: the message stream is exhausted
RunEnds ==
    /\ run_pc = "streaming"
    /\ report' = Extract(result_text, message_texts)
    /\ extracted' = TRUE
    /\ IF Strip(report') = <<>>
       THEN /\ run_pc' = "failed"
            /\ run_error' = [raised |-> TRUE, searches |-> search_count,
                             fetches |-> fetch_count]
            /\ progress' = Summary
            /\ UNCHANGED run_result
       ELSE /\ run_pc' = "returned"
            /\ run_result' = report'
            /\ progress' = Emit(Summary, "phase", "extracted", TextLen(report'), 0)
            /\ UNCHANGED run_error
    /\ UNCHANGED <<received, result_text, message_texts, search_count, fetch_count,
                   webvars, heading_call>>

\* agent.py:71: query() raises, or the run is cancelled while it waits
RunAborts ==
    /\ run_pc = "streaming"
    /\ run_pc' = "aborted"
    /\ UNCHANGED <<received, result_text, message_texts, search_count, fetch_count,
                   progress, run_error, run_result, report, extracted, webvars, heading_call>>

NextRun ==
    \/ RunStart
    \/ \E content \in Contents : RecvAssistant(content)
    \/ \E has \in BOOLEAN, r \in RunResults : (has \/ r = <<>>) /\ RecvResult(has, r)
    \/ RecvOther
    \/ RunEnds
    \/ RunAborts

SpecRun == InitWeb /\ [][NextRun]_vars

\* The request handler and the session with the clock held still: every
\* turn count a client may send, through the whole life of the session
NextTurns ==
    \/ \E s \in Sessions, n \in TurnRequests, p \in BOOLEAN : stream_research(s, n, p)
    \/ \E s \in Sessions : ResumeInitial(s)
    \/ \E s \in Sessions : StartAgent(s)
    \/ \E s \in Sessions : QueueGet(s)
    \/ \E s \in Sessions : ResumeAfterLog(s)
    \/ \E s \in Sessions : ResumeAfterStatus(s)
    \/ \E s \in Sessions : ResumeDrain(s)
    \/ \E s \in Sessions : ResumeConverting(s)
    \/ \E s \in Sessions : RenderOk(s)
    \/ \E s \in Sessions : RenderFails(s)
    \/ \E s \in Sessions : RenderFallbackFails(s)
    \/ \E s \in Sessions : ResumeSaved(s)
    \/ \E s \in Sessions : ResumeTerminal(s)
    \/ \E s \in Sessions : Abandon(s)
    \/ \E id \in CancelIds : cancel_research(id)
    \/ \E s \in Sessions : TaskFirstStep(s)
    \/ \E s \in Sessions : TaskToolUse(s)
    \/ \E s \in Sessions : TaskReturns(s)
    \/ \E s \in Sessions : TaskRaises(s)

SpecTurns == InitWeb /\ [][NextTurns]_vars

\* ------------------------------------------------------------------------
\* The polling loop over a longer time
\* ------------------------------------------------------------------------

\* As InitWeb, with the history of signal times kept
InitBeat ==
    /\ now = 0
    /\ registry = {}
    /\ pc = [s \in Sessions |-> "none"]
    /\ requested = [s \in Sessions |-> 0]
    /\ max_turns = [s \in Sessions |-> 0]
    /\ prompt = [s \in Sessions |-> FALSE]
    /\ queue = [s \in Sessions |-> <<>>]
    /\ started_at = [s \in Sessions |-> 0]
    /\ last_heartbeat = [s \in Sessions |-> 0]
    /\ wait_expired = [s \in Sessions |-> FALSE]
    /\ hb_now = [s \in Sessions |-> 0]
    /\ cur = [s \in Sessions |-> 0]
    /\ sent = [s \in Sessions |-> <<>>]
    /\ signal_at = [s \in Sessions |-> [kept |-> TRUE, at |-> 0]]
    /\ rendered = [s \in Sessions |-> "no"]
    /\ ended = [s \in Sessions |-> "no"]
    /\ task_state = [s \in Sessions |-> "none"]
    /\ task_outcome = [s \in Sessions |-> "none"]
    /\ task_exc = [s \in Sessions |-> "none"]
    /\ must_cancel = [s \in Sessions |-> FALSE]
    /\ task_turns = [s \in Sessions |-> 0]
    /\ emitted = [s \in Sessions |-> 0]
    /\ tool_calls = [s \in Sessions |-> 0]
    /\ lastCancel = [id |-> "", status |-> "none"]
    /\ accepted = [s \in Sessions |-> "no"]
    /\ result_text = <<>>
    /\ message_texts = <<>>
    /\ report = <<>>
    /\ extracted = FALSE
    /\ run_pc = "idle"
    /\ received = <<>>
    /\ search_count = 0
    /\ fetch_count = 0
    /\ progress = <<>>
    /\ run_error = [raised |-> FALSE, searches |-> 0, fetches |-> 0]
    /\ run_result = <<>>
    /\ heading_call = NoCall

LongTick == Advance(MaxBeatTime)

\* The session of a run that goes on until the runtime fails or cancels it,
\* and the terminal event that follows; the client reads at its own pace
NextBeat ==
    \/ \E s \in Sessions, n \in SessionTurns : stream_research(s, n, FALSE)
    \/ \E s \in Sessions : ResumeInitial(s)
    \/ \E s \in Sessions : StartAgent(s)
    \/ \E s \in Sessions : QueueGet(s)
    \/ \E s \in Sessions : ResumeAfterLog(s)
    \/ \E s \in Sessions : ResumeAfterStatus(s)
    \/ \E s \in Sessions : WaitTimeout(s)
    \/ \E s \in Sessions : ResumeAfterHeartbeat(s)
    \/ \E s \in Sessions : ResumeDrain(s)
    \/ \E s \in Sessions : ResumeTerminal(s)
    \/ \E s \in Sessions : TaskFirstStep(s)
    \/ \E s \in Sessions : TaskToolUse(s)
    \/ \E s \in Sessions : TaskRaises(s)
    \/ LongTick

SpecBeat == InitBeat /\ [][NextBeat]_vars

\* ------------------------------------------------------------------------
\* The session under fair scheduling, with a client that keeps reading
\* ------------------------------------------------------------------------

\* The steps of NextWeb but Abandon: the client never goes away
NextLive ==
    \/ \E s \in Sessions, n \in SessionTurns, p \in BOOLEAN : stream_research(s, n, p)
    \/ \E s \in Sessions : ResumeInitial(s)
    \/ \E s \in Sessions : StartAgent(s)
    \/ \E s \in Sessions : QueueGet(s)
    \/ \E s \in Sessions : ResumeAfterLog(s)
    \/ \E s \in Sessions : ResumeAfterStatus(s)
    \/ \E s \in Sessions : WaitTimeout(s)
    \/ \E s \in Sessions : ResumeAfterHeartbeat(s)
    \/ \E s \in Sessions : ResumeDrain(s)
    \/ \E s \in Sessions : ResumeConverting(s)
    \/ \E s \in Sessions : RenderOk(s)
    \/ \E s \in Sessions : RenderFails(s)
    \/ \E s \in Sessions : RenderFallbackFails(s)
    \/ \E s \in Sessions : ResumeSaved(s)
    \/ \E s \in Sessions : ResumeTerminal(s)
    \/ \E id \in CancelIds : cancel_research(id)
    \/ \E s \in Sessions : TaskFirstStep(s)
    \/ \E s \in Sessions : TaskToolUse(s)
    \/ \E s \in Sessions : TaskReturns(s)
    \/ \E s \in Sessions : TaskRaises(s)
    \/ Tick

\* The client takes every event it is offered, so a suspended generator is
\* resumed; render_pdf returns or raises; the event loop runs a task that is
\* ready, and a task whose cancellation was requested gets its CancelledError;
\* the clock goes on, so a pending wait times out.
Fairness ==
    /\ \A s \in Sessions :
          /\ WF_vars(ResumeInitial(s))
          /\ WF_vars(StartAgent(s))
          /\ WF_vars(QueueGet(s))
          /\ WF_vars(ResumeAfterLog(s))
          /\ WF_vars(ResumeAfterStatus(s))
          /\ WF_vars(WaitTimeout(s))
          /\ WF_vars(ResumeAfterHeartbeat(s))
          /\ WF_vars(ResumeDrain(s))
          /\ WF_vars(ResumeConverting(s))
          /\ WF_vars(RenderOk(s) \/ RenderFails(s) \/ RenderFallbackFails(s))
          /\ WF_vars(ResumeSaved(s))
          /\ WF_vars(ResumeTerminal(s))
          /\ WF_vars(TaskFirstStep(s))
          /\ WF_vars(must_cancel[s] /\ TaskRaises(s))
    /\ WF_vars(Tick)

SpecLive == InitWeb /\ [][NextLive]_vars /\ Fairness

\* ------------------------------------------------------------------------
\* Properties of the streaming session manager
\* ------------------------------------------------------------------------

\* positions of the terminal events in the stream of s
TerminalAt(s) == {i \in 1..Len(sent[s]) : sent[s][i].ev \in Terminal}

\* whether the stream of s holds an event named e
Has(s, e) == \E i \in 1..Len(sent[s]) : sent[s][i].ev = e

\* the progress entries forwarded as log events, in stream order
ProgressLogs(s) ==
    SelectSeq(sent[s], LAMBDA e : e.ev = "log" /\ e.kind = "progress")

\* the generator of s is over and its client read to the end
ReadToEnd(s) == pc[s] = "closed" /\ ended[s] # "abandoned"

\* C1: a stream whose client keeps reading holds exactly one terminal event
\* (complete, cancelled, error_event) and nothing after it, however the run
\* and the rendering end.
C1_OneTerminalEvent ==
    \A s \in Sessions :
        /\ Cardinality(TerminalAt(s)) <= 1
        /\ \A i \in TerminalAt(s) : i = Len(sent[s])
        /\ ReadToEnd(s) => Cardinality(TerminalAt(s)) = 1

\* C2: once the stream of a session with a task has ended, for any reason,
\* its id is not in the registry and its task is done or has had its
\* cancellation requested.
C2_CleanupOnEnd ==
    \A s \in Sessions :
        (pc[s] = "closed" /\ task_state[s] # "none") =>
            /\ s \notin registry
            /\ TaskDone(s) \/ must_cancel[s]

\* C2 witness: the client left while the run was active and nobody had asked
\* to cancel it
C2_Witness ==
    \E s \in Sessions :
        /\ pc[s] = "closed"
        /\ ended[s] = "abandoned"
        /\ task_state[s] = "running"
        /\ accepted[s] = "no"
        /\ must_cancel[s]

\* C3: a cancel request is answered "cancelled", and requests the task's
\* cancellation, exactly when the id is registered and its task is not done;
\* else it is answered "not_found".  A request for an id that has already been
\* answered "cancelled" is answered "not_found".
C3_CancelContract ==
    [][\A id \in CancelIds : cancel_research(id) =>
          /\ lastCancel'.id = id
          /\ lastCancel'.status \in {"cancelled", "not_found"}
          /\ (lastCancel'.status = "cancelled")
                <=> (id \in registry /\ task_state[id] # "done")
          /\ lastCancel'.status = "cancelled" =>
                must_cancel'[id] /\ task_state[id] \in {"pending", "running"}
          /\ (id \in Sessions /\ accepted[id] # "no") =>
                lastCancel'.status = "not_found"]_vars

\* C3 witness: a second request for a session cancelled while active, made
\* while its task has not ended yet and its stream is still open
C3_Witness ==
    \E s \in Sessions :
        /\ accepted[s] # "no"
        /\ lastCancel = [id |-> s, status |-> "not_found"]
        /\ ~TaskDone(s)
        /\ pc[s] = "wait"

\* C4 as claimed: a cancel request answered "not_found" leaves the registry
\* and every task unchanged.
C4_NotFoundIsNoOp ==
    [][\A id \in CancelIds :
          (cancel_research(id) /\ lastCancel'.status = "not_found") =>
              /\ registry' = registry
              /\ UNCHANGED taskvars]_vars

\* C4 amended: a cancel request answered "not_found" leaves every task
\* unchanged and adds nothing to the registry; it leaves the registry
\* unchanged when the id is not registered, and removes the id when it is
\* still registered with a task that is done.
C4_NotFoundFrame ==
    [][\A id \in CancelIds :
          (cancel_research(id) /\ lastCancel'.status = "not_found") =>
              /\ UNCHANGED taskvars
              /\ registry' = registry \ {id}
              /\ id \notin registry => registry' = registry
              /\ id \in registry => task_state[id] = "done"]_vars

\* C4 witness: "not_found" for a session whose task is done and whose stream
\* has not been cleaned up yet; the request has removed its id
C4_Witness ==
    \E s \in Sessions :
        /\ lastCancel = [id |-> s, status |-> "not_found"]
        /\ accepted[s] = "no"
        /\ TaskDone(s)
        /\ pc[s] \notin {"none", "closed"}
        /\ s \notin registry

\* C5: a session whose cancel request was accepted before its task ran at all
\* never gets complete or error_event, its task ends cancelled without a
\* progress event, its id is out of the registry, and a stream read to the
\* end holds exactly one cancelled event.
C5_CancelBeforeStart ==
    \A s \in Sessions :
        accepted[s] = "pending" =>
            /\ s \notin registry
            /\ ~Has(s, "complete") /\ ~Has(s, "error_event")
            /\ TaskDone(s) => TaskCancelled(s) /\ emitted[s] = 0
            /\ ReadToEnd(s) =>
                  /\ Cardinality(TerminalAt(s)) = 1
                  /\ sent[s][Len(sent[s])].ev = "cancelled"

\* C5 witness: such a stream, read to the end
C5_Witness ==
    \E s \in Sessions :
        /\ accepted[s] = "pending"
        /\ ended[s] = "returned"
        /\ Has(s, "cancelled")

\* C6: the progress entries forwarded as log events come in the order of the
\* on_progress calls (the i-th forwarded is the i-th produced), heartbeats or
\* not.
C6_ProgressOrder ==
    \A s \in Sessions :
        \A i \in 1..Len(ProgressLogs(s)) : ProgressLogs(s)[i].n = i

\* C6 witness: a heartbeat between the first and a later progress entry
C6_Witness ==
    \E s \in Sessions :
        \E i, j, k \in 1..Len(sent[s]) :
            /\ i < j /\ j < k
            /\ sent[s][i] = Ev("log", "progress", 1)
            /\ sent[s][j].ev = "heartbeat"
            /\ sent[s][k] = Ev("log", "progress", 2)

\* C7: a task that ends cancelled (an accepted cancel request always ends it
\* so) gives the terminal event cancelled; one that raises gives error_event
\* with the failure's message; in both cases render_pdf is not called and no
\* complete is sent.  complete is sent only for a task that returned and a
\* rendering that succeeded.
C7_TerminalByOutcome ==
    \A s \in Sessions :
        /\ (accepted[s] # "no" /\ TaskDone(s)) => TaskCancelled(s)
        /\ TaskCancelled(s) =>
              /\ rendered[s] = "no"
              /\ ~Has(s, "complete") /\ ~Has(s, "error_event")
              /\ ended[s] = "returned" => sent[s][Len(sent[s])].ev = "cancelled"
        /\ (TaskDone(s) /\ task_outcome[s] = "exception") =>
              /\ rendered[s] = "no"
              /\ ~Has(s, "complete") /\ ~Has(s, "cancelled")
              /\ ended[s] = "returned" =>
                    sent[s][Len(sent[s])] = Ev("error_event", task_exc[s], 0)
        /\ Has(s, "complete") =>
              /\ TaskDone(s) /\ task_outcome[s] = "result"
              /\ rendered[s] = "ok"

\* C7 witness: the run raised "no report content" and the stream ended with it
C7_Witness ==
    \E s \in Sessions :
        /\ ended[s] = "returned"
        /\ task_outcome[s] = "exception"
        /\ task_exc[s] = "no_report"
        /\ sent[s][Len(sent[s])] = Ev("error_event", "no_report", 0)

\* the turn count the clamp of a request for n turns must give
EffectiveTurns(n) == IF n < 10 THEN 10 ELSE IF n > 100 THEN 100 ELSE n

\* C8: for every requested turn count n the run gets n if 10 <= n <= 100, 10
\* if n < 10, 100 if n > 100; the value is set before the run starts and is
\* the one the "Max turns" log event reports.
C8_TurnClamp ==
    \A s \in Sessions :
        /\ pc[s] # "none" => max_turns[s] = EffectiveTurns(requested[s])
        /\ task_state[s] # "none" => task_turns[s] = EffectiveTurns(requested[s])
        /\ \A i \in 1..Len(sent[s]) :
              sent[s][i].kind = "max_turns" =>
                  sent[s][i].n = EffectiveTurns(requested[s])

\* C8 witness: a request for 500 turns whose run was started with 100
C8_Witness ==
    \E s \in Sessions :
        /\ requested[s] = 500
        /\ task_state[s] = "running"
        /\ task_turns[s] = 100
        /\ Has(s, "log")

\* ------------------------------------------------------------------------
\* Properties of the registry and of the forwarding of progress entries
\* ------------------------------------------------------------------------

\* C13: from the emission of its session event until its stream is over, and
\* as long as no cancel request has been made, a session's id is in the
\* registry.
C13_RegisteredFromSessionEvent ==
    \A s \in Sessions :
        (Has(s, "session") /\ pc[s] # "closed" /\ lastCancel.status = "none") =>
            s \in registry

\* the last event of the stream of s
LastSent(s) == sent[s][Len(sent[s])]

\* an event forwarding a progress entry as a log event
IsProgressLog(e) == e.ev = "log" /\ e.kind = "progress"

\* C14 as claimed: every progress log event of a stream is immediately
\* followed by a status event with the same message, unless it is the last
\* event so far.
C14_LogStatusPairs ==
    \A s \in Sessions :
        \A i \in 1..(Len(sent[s]) - 1) :
            IsProgressLog(sent[s][i]) =>
                sent[s][i + 1] = Ev("status", "progress", sent[s][i].n)

\* C14 amended: an entry the manager takes from the queue is the head of the
\* queue and is forwarded as a log event.  When the polling loop took it, a
\* status event with the same message follows as soon as the client has taken
\* the log event.  When the flush took it, the run has finished, and what
\* follows its log event is not a status event of a progress entry.
C14_PairsWhilePollingLogsWhenFlushing ==
    [][\A s \in Sessions :
          LET taken == queue[s] # <<>> /\ queue'[s] = Tail(queue[s])
              log == Ev("log", "progress", Head(queue[s]))
          IN  /\ taken =>
                    /\ sent'[s] = Append(sent[s], log)
                    /\ pc'[s] \in {"y_log", "y_drain"}
              /\ (taken /\ pc'[s] = "y_log") => pc[s] = "wait"
              /\ (taken /\ pc'[s] = "y_drain") => TaskDone(s)
              /\ (pc[s] = "y_log" /\ pc'[s] \notin {"y_log", "closed"}) =>
                    /\ IsProgressLog(LastSent(s))
                    /\ sent'[s] = Append(sent[s],
                                         Ev("status", "progress", LastSent(s).n))
              /\ (pc[s] = "y_drain" /\ pc'[s] \notin {"y_drain", "closed"}) =>
                    /\ IsProgressLog(LastSent(s))
                    /\ Len(sent'[s]) = Len(sent[s]) + 1
                    /\ sent'[s][Len(sent'[s])].kind # "progress"]_vars

\* C14 witness: a stream with a log and status pair of the polling loop and
\* two flushed entries, whose logs follow each other
C14_Witness ==
    \E s \in Sessions :
        \E i, j \in 1..(Len(sent[s]) - 1) :
            /\ i < j
            /\ IsProgressLog(sent[s][i])
            /\ sent[s][i + 1] = Ev("status", "progress", sent[s][i].n)
            /\ IsProgressLog(sent[s][j])
            /\ IsProgressLog(sent[s][j + 1])

\* C15: when a stream holds its terminal event, the task is done and the
\* progress log events of the stream are exactly the entries the run
\* produced, each once, in the order produced, all before the terminal event.
C15_NoProgressLost ==
    \A s \in Sessions :
        TerminalAt(s) # {} =>
            /\ TaskDone(s)
            /\ Len(ProgressLogs(s)) = emitted[s]
            /\ \A i \in 1..emitted[s] : ProgressLogs(s)[i].n = i
            /\ TerminalAt(s) = {Len(sent[s])}

\* C15 witness: a run cancelled after a tool invocation; its first entry came
\* through the polling loop, its second through the flush, then cancelled
C15_Witness ==
    \E s \in Sessions :
        /\ ended[s] = "returned"
        /\ TaskCancelled(s)
        /\ emitted[s] = 2
        /\ \E i \in 1..(Len(sent[s]) - 2) :
              /\ sent[s][i] = Ev("status", "progress", 1)
              /\ sent[s][i + 1] = Ev("log", "progress", 2)
              /\ sent[s][i + 2].ev = "cancelled"

\* ------------------------------------------------------------------------
\* Properties of the heartbeat
\* ------------------------------------------------------------------------

\* the step yields a heartbeat on the stream of s
HeartbeatStep(s) ==
    /\ Len(sent'[s]) = Len(sent[s]) + 1
    /\ sent'[s][Len(sent'[s])].ev = "heartbeat"

\* the heartbeat of the step comes from a queue wait that timed out without
\* an entry being taken, at least heartbeat_interval after the session's
\* start, after the last forwarded progress event and after every earlier
\* heartbeat (a heartbeat carries the time elapsed since the start)
HeartbeatInTime(s) ==
    /\ pc[s] = "wait" /\ wait_expired[s]
    /\ queue'[s] = queue[s]
    /\ now - started_at[s] >= heartbeat_interval
    /\ now - signal_at[s].at >= heartbeat_interval
    /\ \A i \in 1..Len(sent[s]) :
          sent[s][i].ev = "heartbeat" =>
              (now - started_at[s]) - sent[s][i].n >= heartbeat_interval

\* C16 as claimed: a heartbeat is yielded only while the task is not done,
\* only from a queue wait that timed out, and only when the interval has
\* elapsed since the start, the last forwarded progress event and the last
\* heartbeat.
C16_HeartbeatOnlyWhileRunning ==
    [][\A s \in Sessions :
          HeartbeatStep(s) => (~TaskDone(s) /\ HeartbeatInTime(s))]_vars

\* C16 amended: a queue wait is begun only while the task is not done (the
\* task may finish during the wait), and a heartbeat is yielded only from a
\* queue wait that timed out, and only when the interval has elapsed since
\* the start, the last forwarded progress event and the last heartbeat.
C16_HeartbeatAfterQuietInterval ==
    [][\A s \in Sessions :
          /\ HeartbeatStep(s) => HeartbeatInTime(s)
          /\ (/\ pc'[s] = "wait" /\ ~wait_expired'[s]
              /\ pc[s] # "wait" \/ wait_expired[s]) => ~TaskDone(s)]_vars

\* C16 witness: a heartbeat 10 after the start, then a forwarded progress
\* entry, then the next heartbeat 20 after the start
C16_Witness ==
    \E s \in Sessions :
        \E i, j, k \in 1..Len(sent[s]) :
            /\ i < j /\ j < k
            /\ sent[s][i] = Ev("heartbeat", "elapsed", 10)
            /\ IsProgressLog(sent[s][j])
            /\ sent[s][k] = Ev("heartbeat", "elapsed", 20)

\* ------------------------------------------------------------------------
\* Liveness of the session
\* ------------------------------------------------------------------------

\* C17: with fair scheduling and a client that keeps reading, a session whose
\* task has finished eventually has its terminal event on its stream and
\* eventually has its id out of the registry, and an accepted cancel request
\* is eventually followed by the cancelled event of that session.
C17_EventuallyTerminalAndUnregistered ==
    \A s \in Sessions :
        /\ TaskDone(s) ~> (TerminalAt(s) # {})
        /\ TaskDone(s) ~> (s \notin registry)
        /\ (accepted[s] # "no") ~> Has(s, "cancelled")

\* ------------------------------------------------------------------------
\* Properties of the report extractor
\* ------------------------------------------------------------------------

\* the windows of strategy 3 whose blank-line join looks like a report
ReportWindows ==
    {n \in 2..Min(7, Len(message_texts)) :
         IsReportText(JoinBlank(LastN(message_texts, n)), 1000)}

\* some single message looks like a report
SomeMessageIsReport ==
    \E i \in 1..Len(message_texts) : IsReportText(message_texts[i], 1000)

\* C9: a result that looks like a report (H1 line, H2 line, more than 1000
\* characters) is returned trimmed, whatever the messages are.
C9_ResultShortCircuits ==
    (extracted /\ IsReportText(result_text, 1000)) =>
        report = Strip(result_text)

\* C9 witness: the result looks like a report, has spaces around it, and a
\* message looks like a report too
C9_Witness ==
    /\ extracted
    /\ IsReportText(result_text, 1000)
    /\ SomeMessageIsReport
    /\ Strip(result_text) # result_text
    /\ report = Strip(result_text)

\* C10: when neither the result nor a single message looks like a report,
\* and the join of the last n messages does for some n in 2..min(7, number
\* of messages), the join for the smallest such n is returned, trimmed.
C10_SmallestWindow ==
    (/\ extracted
     /\ ~IsReportText(result_text, 1000)
     /\ ~SomeMessageIsReport
     /\ ReportWindows # {}) =>
        \E n \in ReportWindows :
            /\ \A m \in ReportWindows : n <= m
            /\ report = Strip(JoinBlank(LastN(message_texts, n)))

\* C10 witness: the last 3 messages joined look like a report, the last 2 do
\* not, and a larger window does too
C10_Witness ==
    /\ extracted
    /\ ~IsReportText(result_text, 1000)
    /\ ~SomeMessageIsReport
    /\ 3 \in ReportWindows /\ 2 \notin ReportWindows /\ 4 \in ReportWindows
    /\ report = Strip(JoinBlank(LastN(message_texts, 3)))
    /\ report # JoinBlank(LastN(message_texts, 3))

\* C11 as claimed: the extractor returns "" for a result "" and no messages,
\* and a non-empty string whenever the result is non-empty or some message
\* text is non-empty, be it whitespace only.
C11_EmptyOnlyIfAllEmpty ==
    extracted =>
        /\ (result_text = <<>> /\ message_texts = <<>>) => report = <<>>
        /\ (\/ result_text # <<>>
            \/ \E i \in 1..Len(message_texts) : message_texts[i] # <<>>) =>
              report # <<>>

\* C11 amended: the extractor returns "" exactly when the result is "" and
\* every message text is empty or whitespace only.
C11_EmptyOnlyIfAllBlank ==
    extracted =>
        (report = <<>>
            <=> /\ result_text = <<>>
                /\ \A i \in 1..Len(message_texts) : Strip(message_texts[i]) = <<>>)

\* C11 witness: a whitespace-only result with whitespace-only messages is
\* returned as it is
C11_Witness ==
    /\ extracted
    /\ result_text = <<Run(" ", 1)>>
    /\ Len(message_texts) = 2
    /\ \A i \in 1..Len(message_texts) : message_texts[i] = <<Run(" ", 1)>>
    /\ report = result_text

\* ------------------------------------------------------------------------
\* Properties of the run
\* ------------------------------------------------------------------------

\* the names of the tools invoked by the messages, in order
RECURSIVE ToolNames(_)
ToolNames(msgs) ==
    IF msgs = <<>> THEN <<>>
    ELSE LET tools == SelectSeq(Head(msgs).content, LAMBDA b : b.b = "tool")
         IN  [i \in 1..Len(tools) |-> tools[i].name] \o ToolNames(Tail(msgs))

\* how many times x occurs in seq
CountOf(seq, x) == Cardinality({i \in 1..Len(seq) : seq[i] = x})

\* the on_progress calls of a type, in order
CallsOf(type) == SelectSeq(progress, LAMBDA c : c.type = type)

\* the ResultMessages received, in order
ResultsReceived == SelectSeq(received, LAMBDA m : m.m = "result")

\* the result of the last ResultMessage with a non-empty result, "" for none
LastNonEmptyResult ==
    LET R == SelectSeq(ResultsReceived, LAMBDA m : m.has /\ m.result # <<>>)
    IN  IF R = <<>> THEN <<>> ELSE R[Len(R)].result

\* C12: the run raises its RuntimeError exactly when the extracted report is
\* empty or whitespace only, with the numbers of searches and fetches of the
\* run in its message; else it returns the extracted report as it is.  Report
\* and failure come only when the message stream is exhausted.
C12_RunFailsIffBlank ==
    /\ run_pc = "failed" =>
          /\ extracted
          /\ Strip(report) = <<>>
          /\ run_error = [raised |-> TRUE,
                          searches |-> CountOf(ToolNames(received), "WebSearch"),
                          fetches |-> CountOf(ToolNames(received), "WebFetch")]
    /\ run_pc = "returned" =>
          /\ extracted
          /\ Strip(report) # <<>>
          /\ run_result = report
          /\ ~run_error.raised
    /\ extracted => run_pc \in {"failed", "returned"}
    /\ run_pc \in {"idle", "streaming", "aborted"} =>
          ~extracted /\ ~run_error.raised /\ run_result = <<>>

\* C12 witness: a run with one search and one fetch whose extracted report
\* is a single space fails
C12_Witness ==
    /\ run_pc = "failed"
    /\ report = <<Run(" ", 1)>>
    /\ run_error = [raised |-> TRUE, searches |-> 1, fetches |-> 1]

\* C18: the counters are the numbers of WebSearch and WebFetch invocations
\* received so far; the search calls of on_progress are numbered 1, 2, ... and
\* so are the fetch calls, one per invocation and in the order of the
\* invocations; another tool makes no call and changes no counter.
C18_CountersFollowInvocations ==
    LET names == ToolNames(received)
        counted == SelectSeq(names, LAMBDA nm : nm \in {"WebSearch", "WebFetch"})
        calls == SelectSeq(progress, LAMBDA c : c.type \in {"search", "fetch"})
    IN  /\ search_count = CountOf(names, "WebSearch")
        /\ fetch_count = CountOf(names, "WebFetch")
        /\ Len(CallsOf("search")) = search_count
        /\ \A k \in 1..search_count : CallsOf("search")[k].n = k
        /\ Len(CallsOf("fetch")) = fetch_count
        /\ \A k \in 1..fetch_count : CallsOf("fetch")[k].n = k
        /\ Len(calls) = Len(counted)
        /\ \A i \in 1..Len(calls) :
              calls[i].type = IF counted[i] = "WebSearch" THEN "search" ELSE "fetch"
        /\ run_pc = "streaming" => Len(progress) = 1 + Len(counted)

\* C18 witness: searches and fetches in turn, and another tool, mid-run
C18_Witness ==
    /\ run_pc = "streaming"
    /\ search_count = 2
    /\ fetch_count = 2
    /\ CountOf(ToolNames(received), "Bash") = 1
    /\ progress[2].type = "fetch" /\ progress[3].type = "search"

\* C19 as claimed: the result handed to the extractor is the result of the
\* last ResultMessage received ("" for None), whatever it is.
C19_LastResultWins ==
    ResultsReceived # <<>> =>
        LET last == ResultsReceived[Len(ResultsReceived)]
        IN  result_text = IF last.has THEN last.result ELSE <<>>

\* C19 amended: the result handed to the extractor is the result of the last
\* ResultMessage whose result is not empty; a ResultMessage with an empty
\* result, or none, leaves the earlier value.
C19_LastNonEmptyResultWins ==
    /\ run_pc # "idle" => result_text = LastNonEmptyResult
    /\ extracted => report = Extract(LastNonEmptyResult, message_texts)

\* C19 witness: a result, then a different one, then an empty one; the
\* second is handed to the extractor
C19_Witness ==
    /\ extracted
    /\ received = <<ResultMessage(TRUE, Note), ResultMessage(TRUE, Body(3)),
                    ResultMessage(TRUE, <<>>)>>
    /\ result_text = Body(3)
    /\ run_result = Body(3)

\* ------------------------------------------------------------------------
\* The extractor on runs whose report starts at a heading
\* ------------------------------------------------------------------------

\* The runs explored: up to MaxHeadingRun messages drawn from HeadingPool.
MaxHeadingRun == 3

\* "# K K": a titled top-level heading, as "# Market Overview"
TitledHeading1 ==
    <<Run("#", 1), Run(" ", 1), Run("K", 1), Run(" ", 1), Run("K", 1)>>

\* "# x\n" + 10 * "x": a stray heading of the research phase
StrayHeading == Cat(Heading1, Cat(LineBreak, Body(10)))

\* "# K K\n\n## x\n" + 928 * "x": a titled report of 950 characters
TitledReport ==
    Cat(TitledHeading1, Cat(BlankLine, Cat(Heading2, Cat(LineBreak, Body(928)))))

\* "# x\n" + n * "x" + "\n": 5 + n characters, 4 + n without the line break
HeadedLine(n) == Cat(Heading1, Cat(LineBreak, Cat(Body(n), LineBreak)))

\* "# K K\n" + 5 * "x": a titled heading with little below it
TitledShort == Cat(TitledHeading1, Cat(LineBreak, Body(5)))

\* the texts of the messages
HeadingPool == {Note, StrayHeading, TitledReport, HeadedLine(296), HeadedLine(297)}

\* the results of the ResultMessage
HeadingResults == {<<>>, <<Run(" ", 1)>>, Note, TitledShort}

InitHeading ==
    /\ result_text \in HeadingResults
    /\ message_texts \in RunsOf(HeadingPool, 0, MaxHeadingRun)
    /\ report = <<>>
    /\ extracted = FALSE
    /\ run_pc = "idle"
    /\ received = <<>>
    /\ search_count = 0
    /\ fetch_count = 0
    /\ progress = <<>>
    /\ run_error = [raised |-> FALSE, searches |-> 0, fetches |-> 0]
    /\ run_result = <<>>
    /\ heading_call = NoCall
    /\ now = 0
    /\ registry = {}
    /\ pc = [s \in Sessions |-> "none"]
    /\ requested = [s \in Sessions |-> 0]
    /\ max_turns = [s \in Sessions |-> 0]
    /\ prompt = [s \in Sessions |-> FALSE]
    /\ queue = [s \in Sessions |-> <<>>]
    /\ started_at = [s \in Sessions |-> 0]
    /\ last_heartbeat = [s \in Sessions |-> 0]
    /\ wait_expired = [s \in Sessions |-> FALSE]
    /\ hb_now = [s \in Sessions |-> 0]
    /\ cur = [s \in Sessions |-> 0]
    /\ sent = [s \in Sessions |-> <<>>]
    /\ signal_at = [s \in Sessions |-> [kept |-> FALSE, at |-> 0]]
    /\ rendered = [s \in Sessions |-> "no"]
    /\ ended = [s \in Sessions |-> "no"]
    /\ task_state = [s \in Sessions |-> "none"]
    /\ task_outcome = [s \in Sessions |-> "none"]
    /\ task_exc = [s \in Sessions |-> "none"]
    /\ must_cancel = [s \in Sessions |-> FALSE]
    /\ task_turns = [s \in Sessions |-> 0]
    /\ emitted = [s \in Sessions |-> 0]
    /\ tool_calls = [s \in Sessions |-> 0]
    /\ lastCancel = [id |-> "", status |-> "none"]
    /\ accepted = [s \in Sessions |-> "no"]

NextHeading == ExtractReport

SpecHeading == InitHeading /\ [][NextHeading]_vars

\* strategies 1 to 3 find no report: not the result, no message, no window
\* of the last messages
NoReportFound ==
    /\ ~(result_text # <<>> /\ IsReportText(result_text, DefaultMinLength))
    /\ \A i \in 1..Len(message_texts) :
          ~IsReportText(message_texts[i], DefaultMinLength)
    /\ \A n \in 2..Min(7, Len(message_texts)) :
          ~IsReportText(JoinBlank(LastN(message_texts, n)), DefaultMinLength)

\* the blank-line join of all messages, the result appended when not empty
Joined ==
    IF result_text = <<>> THEN JoinBlank(message_texts)
    ELSE Cat(Cat(JoinBlank(message_texts), BlankLine), result_text)

\* run i of the joined text is the start point of strategy 4: the first
\* titled top-level heading if there is one, else the first top-level heading
IsStartPoint(i) ==
    LET Titled == {j \in 1..Len(Joined) : TitledH1At(Joined, j)}
        Plain == {j \in 1..Len(Joined) : H1At(Joined, j)}
        Of == IF Titled # {} THEN Titled ELSE Plain
    IN  i \in Of /\ \A j \in Of : i <= j

HasReportHeading(text) == \E i \in 1..Len(text) : TitledH1At(text, i)

\* The runs explored: up to MaxTitledRun messages drawn from TitledRunPool.
MaxTitledRun == 2

\* "# K": a heading that is a title word and nothing else, as "# Report"
BareTitle == <<Run("#", 1), Run(" ", 1), Run("K", 1)>>

\* "# K\n" + 310 * "x": a report under the heading "# Report"
BareTitleReport == Cat(BareTitle, Cat(LineBreak, Body(310)))

\* the texts _has_report_heading is asked about
TitlePool ==
    {<<>>, Note, StrayHeading, BareTitle, BareTitleReport, TitledHeading1,
     <<Run("#", 1), Run(" ", 2), Run("K", 1)>>,
     <<Run("#", 1), Run(" ", 1), Run("K", 2)>>,
     <<Run("#", 1), Run(" ", 1), Run("x", 1), Run("K", 1)>>,
     <<Run("#", 1), Run(" ", 1), Run("K", 1), Run("x", 1)>>,
     <<Run("#", 1), Run("K", 1)>>,
     <<Run("#", 2), Run(" ", 1), Run("x", 1), Run("K", 1)>>,
     <<Run(" ", 1), Run("#", 1), Run(" ", 1), Run("x", 1), Run("K", 1)>>,
     <<Run("x", 1), Run("K", 1)>>,
     Cat(Heading1, Cat(LineBreak, <<Run("K", 1)>>)),
     Cat(Note, Cat(LineBreak, BareTitle)),
     Cat(Note, Cat(LineBreak, TitledHeading1)),
     Cat(StrayHeading, Cat(LineBreak, TitledShort))}

\* the texts of the messages
TitledRunPool == {Note, StrayHeading, BareTitleReport, TitledReport}

InitTitled ==
    /\ result_text = <<>>
    /\ message_texts \in RunsOf(TitledRunPool, 0, MaxTitledRun)
    /\ \E t \in TitlePool :
          heading_call = [state |-> "asked", text |-> t, found |-> FALSE]
    /\ report = <<>>
    /\ extracted = FALSE
    /\ run_pc = "idle"
    /\ received = <<>>
    /\ search_count = 0
    /\ fetch_count = 0
    /\ progress = <<>>
    /\ run_error = [raised |-> FALSE, searches |-> 0, fetches |-> 0]
    /\ run_result = <<>>
    /\ now = 0
    /\ registry = {}
    /\ pc = [s \in Sessions |-> "none"]
    /\ requested = [s \in Sessions |-> 0]
    /\ max_turns = [s \in Sessions |-> 0]
    /\ prompt = [s \in Sessions |-> FALSE]
    /\ queue = [s \in Sessions |-> <<>>]
    /\ started_at = [s \in Sessions |-> 0]
    /\ last_heartbeat = [s \in Sessions |-> 0]
    /\ wait_expired = [s \in Sessions |-> FALSE]
    /\ hb_now = [s \in Sessions |-> 0]
    /\ cur = [s \in Sessions |-> 0]
    /\ sent = [s \in Sessions |-> <<>>]
    /\ signal_at = [s \in Sessions |-> [kept |-> FALSE, at |-> 0]]
    /\ rendered = [s \in Sessions |-> "no"]
    /\ ended = [s \in Sessions |-> "no"]
    /\ task_state = [s \in Sessions |-> "none"]
    /\ task_outcome = [s \in Sessions |-> "none"]
    /\ task_exc = [s \in Sessions |-> "none"]
    /\ must_cancel = [s \in Sessions |-> FALSE]
    /\ task_turns = [s \in Sessions |-> 0]
    /\ emitted = [s \in Sessions |-> 0]
    /\ tool_calls = [s \in Sessions |-> 0]
    /\ lastCancel = [id |-> "", status |-> "none"]
    /\ accepted = [s \in Sessions |-> "no"]

\* agent.py:141-147: _has_report_heading(text) answers
has_report_heading ==
    /\ heading_call.state = "asked"
    /\ heading_call' = [heading_call EXCEPT !.state = "answered",
                                            !.found = HasReportHeading(heading_call.text)]
    /\ UNCHANGED <<result_text, message_texts, report, extracted, runvars, webvars>>

NextTitled ==
    \/ has_report_heading
    \/ ExtractReport

SpecTitled == InitTitled /\ [][NextTitled]_vars

\* run i of t starts a line that begins with "# " and has a title word
\* somewhere after the marker
KeywordHeadingAt(t, i) ==
    /\ i = 1 \/ t[i - 1].c = "\n"
    /\ t[i] = Run("#", 1)
    /\ i + 1 <= Len(t) /\ t[i + 1].c = " "
    /\ \E j \in (i + 2)..Len(t) :
          t[j].c = "K" /\ \A k \in i..j : t[k].c # "\n"

\* C21: _has_report_heading(text) is true exactly when some line of the text
\* begins with "# " and has a title word anywhere after the marker, also right
\* after it; strategy 4 of the extractor starts the report at the first such
\* line when the trimmed text from it is longer than 300 characters.
C21_TitledIffKeywordOnHeadingLine ==
    /\ heading_call.state = "answered" =>
          (heading_call.found <=>
               \E i \in 1..Len(heading_call.text) :
                   KeywordHeadingAt(heading_call.text, i))
    /\ (extracted /\ NoReportFound) =>
          \A i \in 1..Len(Joined) :
              (/\ KeywordHeadingAt(Joined, i)
               /\ \A j \in 1..(i - 1) : ~KeywordHeadingAt(Joined, j)
               /\ TextLen(Strip(From(Joined, i))) > 300)
                  => report = Strip(From(Joined, i))

====
